---------------------------- MODULE Spec2Model ----------------------------
(***************************************************************************)
(* Model of server/index.js: the Express server that gates contract        *)
(* questions behind a Stripe Checkout payment.                             *)
(*                                                                         *)
(* A handler runs synchronously from one await to the next, so each action *)
(* below is one such segment: the arrival of a request up to its first     *)
(* await (or its response), and the continuation after each awaited call.  *)
(* Requests that are suspended at an await are kept in the bag `inflight`; *)
(* the request whose handler finished most recently is kept in `last`.     *)
(***************************************************************************)
EXTENDS Integers, Sequences, FiniteSets, Bags, TLC

\* Bound: number of requests that may be suspended at an await at once.
MaxInFlight == 2

-----------------------------------------------------------------------------
(* JavaScript values that reach the handlers *)

\* req.body.question as multer delivers it: absent, a string, or an array
\* (a repeated form field).  Strings are sequences of characters.
JsUndefined == [t |-> "undefined", s |-> << >>]
JsString(chars) == [t |-> "string", s |-> chars]
JsArray == [t |-> "object", s |-> << >>]

Questions ==
    { JsUndefined, JsArray, JsString(<<" ">>), JsString(<<" ", "q", "?">>) }

\* A session identifier field: absent, or a string.
NoId == [defined |-> FALSE, s |-> ""]
Id(str) == [defined |-> TRUE, s |-> str]

\* Identifiers the payment provider issues.
ProviderIds == {"cs_1", "cs_2"}

\* Property names every object created by `{}` inherits from Object.prototype.
ObjectPrototypeKeys ==
    {"constructor", "toString", "valueOf", "hasOwnProperty", "__proto__"}

\* Identifier strings a client sends: provider-issued ones and one that is
\* also the name of an inherited property.
ClientIds == ProviderIds \cup {"constructor"}

SessionIdValues == {NoId} \cup {Id(s) : s \in ClientIds}

\* req.file.originalname; the empty sequence stands for req.file undefined.
NoFile == << >>
TxtName == <<"a", ".", "t", "x", "t">>
PdfName == <<"b", ".", "P", "D", "F">>
Files == {NoFile, TxtName, PdfName}

-----------------------------------------------------------------------------
(* Pure helpers of the query handler *)

Whitespace == {" ", "\t", "\n"}

RECURSIVE TrimStart(_)
TrimStart(s) ==
    IF s # << >> /\ Head(s) \in Whitespace THEN TrimStart(Tail(s)) ELSE s

RECURSIVE TrimEnd(_)
TrimEnd(s) ==
    IF s # << >> /\ s[Len(s)] \in Whitespace
    THEN TrimEnd(SubSeq(s, 1, Len(s) - 1))
    ELSE s

\* String.prototype.trim
Trim(s) == TrimEnd(TrimStart(s))

\* `!question || typeof question !== 'string' || question.trim().length === 0`
QuestionMissing(q) ==
    \/ q.t = "undefined"
    \/ (q.t = "string" /\ q.s = << >>)
    \/ q.t # "string"
    \/ Len(Trim(q.s)) = 0

UpperCase == <<"A", "B", "C", "D", "E", "F", "G", "H", "I", "J", "K", "L", "M",
               "N", "O", "P", "Q", "R", "S", "T", "U", "V", "W", "X", "Y", "Z">>
LowerCase == <<"a", "b", "c", "d", "e", "f", "g", "h", "i", "j", "k", "l", "m",
               "n", "o", "p", "q", "r", "s", "t", "u", "v", "w", "x", "y", "z">>

\* String.prototype.toLowerCase
ToLowerCase(s) ==
    [i \in DOMAIN s |->
        IF \E k \in DOMAIN UpperCase : UpperCase[k] = s[i]
        THEN LowerCase[CHOOSE k \in DOMAIN UpperCase : UpperCase[k] = s[i]]
        ELSE s[i]]

\* path.extname: from the last "." of the name to its end; empty when there is
\* no "." or the only "." is the first character.
Extname(name) ==
    LET dots == {i \in DOMAIN name : name[i] = "."} IN
    IF dots = {} THEN << >>
    ELSE LET d == CHOOSE i \in dots : \A j \in dots : j <= i IN
         IF d = 1 THEN << >> ELSE SubSeq(name, d, Len(name))

PdfExt == <<".", "p", "d", "f">>

-----------------------------------------------------------------------------
(* State *)

VARIABLES
    env,           \* process.env read at start-up: which credentials are set
    paidSessions,  \* own property names of the paidSessions object
    sessions,      \* the payment provider's checkout sessions: id -> status
    inflight,      \* bag of requests suspended at an await
    last,          \* the request whose handler finished most recently
    confirmed,     \* ids for which a retrieve of this process observed 'paid'
    paidAnswered,  \* ids for which this process answered {paid: true}
    \* One browser running client/app.js:
    cPage,         \* parity of the number of page loads
    cUrl,          \* the session_id parameter of the page's URL
    cPaid,         \* React state `paid`
    cSessionId,    \* React state `sessionId`
    storage,       \* localStorage items 'paid' and 'sessionId'
    cFile,         \* React state `file` (the chosen file's name)
    cQuestion,     \* React state `question`
    cVerify,       \* the page's GET /api/checkout-session call
    cAsk           \* the page's POST /api/query call

serverVars == <<env, paidSessions, sessions, inflight, last, confirmed, paidAnswered>>

clientVars ==
    <<cPage, cUrl, cPaid, cSessionId, storage, cFile, cQuestion, cVerify, cAsk>>

vars == <<serverVars, clientVars>>

Envs == [stripe : BOOLEAN, openai : BOOLEAN]

\* payment_status values of a checkout session; "none": no such session.
PaymentStatuses == {"unpaid", "paid", "no_payment_required"}

\* What the runtime does with an exception that leaves an async handler:
\* Express 4 leaves the request unanswered, and Node then either only warns
\* ("hang") or terminates the process ("crash"); Express 5 hands the error to
\* its default error handler, which answers 500 ("framework500").
EscapeOutcomes == {"hang", "crash", "framework500"}

\* A request and everything its handler has done so far.
\*   log       operations performed, in order
\*   stored    the temporary upload of this request exists on disk
\*   extracted contractText holds the text of the upload
\*   sent      number of responses written
\*   observed  what stripe.checkout.sessions.retrieve produced
\*   paid      the `paid` member of a 200 verification response
NewRequest(kind, body, file, question, sessionId) ==
    [kind |-> kind, body |-> body, file |-> file, question |-> question,
     sessionId |-> sessionId, pc |-> "start", log |-> << >>, status |-> 0,
     sent |-> 0, escape |-> "none", stored |-> (file # NoFile),
     extracted |-> FALSE, observed |-> "none", paid |-> FALSE]

\* `last` before any handler has finished in this process.
Boot == [NewRequest("boot", FALSE, NoFile, JsUndefined, NoId) EXCEPT !.pc = "done"]

Log(r, op) == [r EXCEPT !.log = Append(@, op)]

\* res.status(code).json(...) followed by the end of the handler
Respond(r, code) ==
    [r EXCEPT !.status = code, !.sent = @ + 1, !.pc = "done"]

\* An exception thrown outside every try block of the handler.
Throw(r, outcome) ==
    [r EXCEPT !.escape = outcome, !.pc = "done",
              !.status = IF outcome = "framework500" THEN 500 ELSE @,
              !.sent = IF outcome = "framework500" THEN @ + 1 ELSE @]

-----------------------------------------------------------------------------
(* The Paid-Session Registry: a plain object used as a map *)

\* Truthiness of `paidSessions[key]`: an own property (always `true`), or a
\* property found on Object.prototype (a function or the prototype itself).
Lookup(own, key) == key \in own \/ key \in ObjectPrototypeKeys

\* Variant: the assignment toggles the entry instead of setting it.
SetPropertyToggle(own, key) ==
    IF key \in own THEN own \ {key} ELSE own \cup {key}

\* Variant: the registry is replaced by an object holding only the new entry.
SetPropertyOverwrite(own, key) == {key}

\* `paidSessions[key] = true`: defines an own property, except that assigning
\* a primitive to "__proto__" is ignored by its setter.
SetProperty(own, key) == IF key = "__proto__" THEN own ELSE own \cup {key}

\* `!sessionId || !paidSessions[sessionId]`
PaymentRequired(sessionId, own) ==
    \/ ~sessionId.defined
    \/ sessionId.s = ""
    \/ ~Lookup(own, sessionId.s)

-----------------------------------------------------------------------------
(* POST /api/query *)

\* try { fs.unlinkSync(file.path) } catch {}: the upload is removed (an
\* unlink that throws is swallowed by the empty catch and changes no path).
Unlink(r) == [Log(r, "unlink") EXCEPT !.stored = FALSE]

\* Variant: the `if (!apiKey) return ...` guard is missing.
ComposeNoKeyCheck(r) == [Log(Unlink(r), "complete") EXCEPT !.pc = "completion"]

\* From the removal of the upload to the completion call.
Compose(r) ==
    LET u == Unlink(r) IN
    IF ~env.openai THEN Respond(u, 500)
    ELSE [Log(u, "complete") EXCEPT !.pc = "completion"]

\* The try block that reads the upload, up to `await pdf(buffer)`.
ReadUpload(r, readOk) ==
    LET ext == ToLowerCase(Extname(r.file))
        rd == Log(r, "read")
    IN  IF ~readOk THEN Respond(Unlink(rd), 500)
        ELSE IF ext = PdfExt THEN [Log(rd, "parse") EXCEPT !.pc = "pdf"]
        ELSE Compose([rd EXCEPT !.extracted = TRUE])

\* The handler from its entry to its first await or its response.
QueryHandler(r, readOk, outcome) ==
    IF ~r.body THEN Throw(r, outcome)
    ELSE IF r.file = NoFile THEN Respond(r, 400)
    ELSE IF QuestionMissing(r.question) THEN Respond(r, 400)
    ELSE IF PaymentRequired(r.sessionId, paidSessions)
         THEN Respond(Log(r, "lookup"), 402)
    ELSE ReadUpload(Log(r, "lookup"), readOk)

\* Continuation of `await pdf(buffer)`.
PdfSettled(r, parseOk) ==
    IF parseOk THEN Compose([r EXCEPT !.extracted = TRUE])
    ELSE Respond(Unlink(r), 500)

\* Variant: a failed completion call is issued again.
CompletionSettledRetry(r, ok) ==
    IF ok THEN Respond(r, 200) ELSE Log(r, "complete")

\* Continuation of `await openai.chat.completions.create(...)`.
CompletionSettled(r, ok) == IF ok THEN Respond(r, 200) ELSE Respond(r, 500)

-----------------------------------------------------------------------------
(* POST /api/create-checkout-session and GET /api/checkout-session *)

\* The line items passed to the provider do not influence any state kept here.
CreateHandler(r) ==
    IF ~env.stripe THEN Respond(r, 500)
    ELSE [Log(r, "create") EXCEPT !.pc = "create"]

CreateSettled(r, ok) == IF ok THEN Respond(r, 200) ELSE Respond(r, 500)

\* Variant: the parameter is checked before the provider configuration.
VerifyHandlerParamFirst(r) ==
    IF ~r.sessionId.defined \/ r.sessionId.s = "" THEN Respond(r, 400)
    ELSE IF ~env.stripe THEN Respond(r, 500)
    ELSE [Log(r, "retrieve") EXCEPT !.pc = "retrieve"]

VerifyHandler(r) ==
    IF ~env.stripe THEN Respond(r, 500)
    ELSE IF ~r.sessionId.defined \/ r.sessionId.s = "" THEN Respond(r, 400)
    ELSE [Log(r, "retrieve") EXCEPT !.pc = "retrieve"]

\* Variant: every status other than 'unpaid' counts as paid.
IsPaidNotUnpaid(status) == status # "unpaid"

\* `session.payment_status === 'paid'`
IsPaid(status) == status = "paid"

\* Variant: the paid session is never recorded.
RecordPaidNever(own, key, isPaid) == own

\* `if (isPaid) { paidSessions[session_id] = true; }`
RecordPaid(own, key, isPaid) == IF isPaid THEN SetProperty(own, key) ELSE own

\* Continuation of `await stripe.checkout.sessions.retrieve(session_id)`;
\* result is a payment status, or "error" when the call rejected.
VerifySettled(r, result) ==
    IF result = "error" THEN Respond([r EXCEPT !.observed = result], 500)
    ELSE Respond([r EXCEPT !.observed = result, !.paid = IsPaid(result)], 200)

\* What the provider answers to a retrieve of `key`.
RetrieveResults(key) ==
    {"error"} \cup
    (IF key \in ProviderIds /\ sessions[key] # "none" THEN {sessions[key]} ELSE {})

-----------------------------------------------------------------------------
(* client/app.js: pure parts of the App component *)

\* Truthiness of an optional string.
Truthy(v) == v.defined /\ v.s # ""

\* localStorage with neither item set.
EmptyStorage == [paid |-> NoId, sessionId |-> NoId]

\* What the question field can hold.
ClientQuestions == {<< >>, <<" ">>, <<" ", "q", "?">>}

\* No call made by this page; a call whose callbacks have run.
Idle == [NewRequest("none", FALSE, NoFile, JsUndefined, NoId) EXCEPT !.pc = "idle"]
Delivered == [Idle EXCEPT !.pc = "delivered"]

Pending(r) == r.pc \in {"retrieve", "pdf", "completion", "create"}

\* A call whose connection broke: axios rejects without a response.
Dropped(r) == IF Pending(r) THEN [r EXCEPT !.pc = "done", !.status = 0] ELSE r

\* Variant: only the paid flag is consulted.
ShouldRestoreFlagOnly(st) == st.paid = Id("true")

\* `paidFlag === 'true' && storedSession`
ShouldRestore(st) == st.paid = Id("true") /\ Truthy(st.sessionId)

\* axios resolves on a 2xx status; then `resp.data && resp.data.paid`
VerifiedPaid(resp) == resp.status = 200 /\ resp.paid

\* The three early returns of handleAsk.
CanAsk(file, question, paid) ==
    file # NoFile /\ Len(Trim(question)) # 0 /\ paid

\* The multipart body handleAsk posts, as multer delivers it to the server.
FormData(file, question, sessionId) ==
    NewRequest("query", TRUE, file, JsString(Trim(question)),
               IF Truthy(sessionId) THEN sessionId ELSE NoId)

-----------------------------------------------------------------------------
(* Actions *)

Init ==
    /\ env \in Envs
    /\ paidSessions = {}
    /\ sessions = [i \in ProviderIds |-> "none"]
    /\ inflight = EmptyBag
    /\ last = Boot
    /\ confirmed = {}
    /\ paidAnswered = {}
    /\ cPage = 0
    /\ cUrl = NoId
    /\ cPaid = FALSE
    /\ cSessionId = NoId
    /\ storage = EmptyStorage
    /\ cFile = NoFile
    /\ cQuestion = << >>
    /\ cVerify = Idle
    /\ cAsk = Idle

Resume(r) == inflight (-) SetToBag({r})

Awaiting(pc) == {r \in BagToSet(inflight) : r.pc = pc}

\* Where a request goes when a segment of its handler ends.
Settle(r, others) ==
    IF r.pc = "done"
    THEN last' = r /\ inflight' = others
    ELSE last' = last /\ inflight' = others (+) SetToBag({r})

\* The requests a client can send to POST /api/query.  A request that is not
\* multipart passes multer untouched: req.file and req.body stay undefined.
QueryRequests ==
    {NewRequest("query", FALSE, NoFile, JsUndefined, NoId)} \cup
    {NewRequest("query", TRUE, file, question, sessionId) :
        file \in Files, question \in Questions, sessionId \in SessionIdValues}

\* A request to POST /api/query arrives; multer has stored its upload.
Query ==
    /\ BagCardinality(inflight) < MaxInFlight
    /\ \E req \in QueryRequests :
          \E r \in {QueryHandler(req, readOk, outcome) :
                       readOk \in BOOLEAN, outcome \in EscapeOutcomes} :
             IF r.escape = "crash"
             THEN /\ last' = r
                  /\ inflight' = EmptyBag
                  /\ paidSessions' = {}
                  /\ confirmed' = {}
                  /\ paidAnswered' = {}
             ELSE /\ Settle(r, inflight)
                  /\ UNCHANGED <<paidSessions, confirmed, paidAnswered>>
    /\ UNCHANGED <<env, sessions, clientVars>>

PdfParsed ==
    /\ \E r \in Awaiting("pdf"), parseOk \in BOOLEAN :
          Settle(PdfSettled(r, parseOk), Resume(r))
    /\ UNCHANGED <<env, paidSessions, sessions, confirmed, paidAnswered, clientVars>>

CompletionReturned ==
    /\ \E r \in Awaiting("completion"), ok \in BOOLEAN :
          Settle(CompletionSettled(r, ok), Resume(r))
    /\ UNCHANGED <<env, paidSessions, sessions, confirmed, paidAnswered, clientVars>>

CreateCheckout ==
    /\ BagCardinality(inflight) < MaxInFlight
    /\ Settle(CreateHandler(NewRequest("create", FALSE, NoFile, JsUndefined, NoId)),
              inflight)
    /\ UNCHANGED <<env, paidSessions, sessions, confirmed, paidAnswered, clientVars>>

\* The provider creates a session under a fresh id, or rejects the call.
CheckoutCreated ==
    /\ \E r \in Awaiting("create") :
          \/ /\ \E i \in ProviderIds, st \in {"unpaid", "no_payment_required"} :
                   /\ sessions[i] = "none"
                   /\ sessions' = [sessions EXCEPT ![i] = st]
             /\ Settle(CreateSettled(r, TRUE), Resume(r))
          \/ /\ sessions' = sessions
             /\ Settle(CreateSettled(r, FALSE), Resume(r))
    /\ UNCHANGED <<env, paidSessions, confirmed, paidAnswered, clientVars>>

\* The customer completes the payment on the provider's hosted page.
CustomerPays ==
    /\ \E i \in ProviderIds :
          /\ sessions[i] = "unpaid"
          /\ sessions' = [sessions EXCEPT ![i] = "paid"]
    /\ UNCHANGED <<env, paidSessions, inflight, last, confirmed, paidAnswered,
                   clientVars>>

VerifyCheckout ==
    /\ BagCardinality(inflight) < MaxInFlight
    /\ \E sessionId \in SessionIdValues :
          Settle(VerifyHandler(NewRequest("verify", FALSE, NoFile, JsUndefined, sessionId)),
                 inflight)
    /\ UNCHANGED <<env, paidSessions, sessions, confirmed, paidAnswered, clientVars>>

CheckoutRetrieved ==
    /\ \E r \in Awaiting("retrieve") :
          \E result \in RetrieveResults(r.sessionId.s) :
             LET done == VerifySettled(r, result) IN
             /\ paidSessions' = RecordPaid(paidSessions, r.sessionId.s,
                                           result # "error" /\ IsPaid(result))
             /\ confirmed' = IF result = "paid"
                             THEN confirmed \cup {r.sessionId.s} ELSE confirmed
             /\ paidAnswered' = IF done.status = 200 /\ done.paid
                                THEN paidAnswered \cup {r.sessionId.s}
                                ELSE paidAnswered
             /\ Settle(done, Resume(r))
    /\ UNCHANGED <<env, sessions, clientVars>>

\* The process is stopped and started again: module state is rebuilt, the
\* requests in flight are lost, the provider's records are not.  The calls the
\* browser was waiting for fail.
Restart ==
    /\ env' \in Envs
    /\ paidSessions' = {}
    /\ inflight' = EmptyBag
    /\ last' = Boot
    /\ confirmed' = {}
    /\ paidAnswered' = {}
    /\ cVerify' = Dropped(cVerify)
    /\ cAsk' = Dropped(cAsk)
    /\ UNCHANGED <<sessions, cPage, cUrl, cPaid, cSessionId, storage, cFile, cQuestion>>

-----------------------------------------------------------------------------
(* Actions of the browser; each server handler segment runs within the step
   that delivers the request or the awaited result to it *)

\* The page is loaded: the component mounts with fresh state and its effect
\* runs.  The page that was open is left once its calls have settled; what a
\* call does when nobody waits for its answer is what any request does.
Visit ==
    /\ ~Pending(cVerify)
    /\ ~Pending(cAsk)
    /\ \E sess \in SessionIdValues :
          LET req == VerifyHandler(NewRequest("verify", FALSE, NoFile, JsUndefined, sess))
          IN  /\ cUrl' = sess
              /\ IF Truthy(sess)
                 THEN /\ cVerify' = req
                      /\ last' = IF req.pc = "done" THEN req ELSE last
                      /\ cPaid' = FALSE
                      /\ cSessionId' = NoId
                 ELSE /\ cVerify' = Idle
                      /\ last' = last
                      /\ cPaid' = ShouldRestore(storage)
                      /\ cSessionId' = IF ShouldRestore(storage)
                                       THEN storage.sessionId ELSE NoId
    /\ cPage' = 1 - cPage
    /\ cFile' = NoFile
    /\ cQuestion' = << >>
    /\ cAsk' = Idle
    /\ UNCHANGED <<env, paidSessions, sessions, inflight, confirmed, paidAnswered,
                   storage>>

\* The provider answers the retrieve made for the page's verification.
ClientRetrieved ==
    /\ cVerify.pc = "retrieve"
    /\ \E result \in RetrieveResults(cVerify.sessionId.s) :
          LET done == VerifySettled(cVerify, result) IN
          /\ paidSessions' = RecordPaid(paidSessions, cVerify.sessionId.s,
                                        result # "error" /\ IsPaid(result))
          /\ confirmed' = IF result = "paid"
                          THEN confirmed \cup {cVerify.sessionId.s} ELSE confirmed
          /\ paidAnswered' = IF done.status = 200 /\ done.paid
                             THEN paidAnswered \cup {cVerify.sessionId.s}
                             ELSE paidAnswered
          /\ cVerify' = done
          /\ last' = done
    /\ UNCHANGED <<env, sessions, inflight, cPage, cUrl, cPaid, cSessionId, storage,
                   cFile, cQuestion, cAsk>>

\* .then / .catch / .finally of the verification call.
VerifyCallback ==
    /\ cVerify.pc = "done"
    /\ IF VerifiedPaid(cVerify)
       THEN /\ cPaid' = TRUE
            /\ cSessionId' = cVerify.sessionId
            /\ storage' = [paid |-> Id("true"), sessionId |-> cVerify.sessionId]
       ELSE UNCHANGED <<cPaid, cSessionId, storage>>
    /\ cUrl' = NoId
    /\ cVerify' = Delivered
    /\ UNCHANGED <<serverVars, cPage, cFile, cQuestion, cAsk>>

\* handleFileChange; the input is disabled unless paid.
ChooseFile ==
    /\ cPaid
    /\ \E f \in Files : cFile' = f
    /\ UNCHANGED <<serverVars, cPage, cUrl, cPaid, cSessionId, storage, cQuestion,
                   cVerify, cAsk>>

\* handleQuestionChange; the field is disabled unless paid.
TypeQuestion ==
    /\ cPaid
    /\ \E q \in ClientQuestions : cQuestion' = q
    /\ UNCHANGED <<serverVars, cPage, cUrl, cPaid, cSessionId, storage, cFile,
                   cVerify, cAsk>>

\* Where the page's query stands after a segment of its handler.
Asked(r) == cAsk' = r /\ last' = IF r.pc = "done" THEN r ELSE last

\* handleAsk up to its await; the button is disabled while loading or unpaid.
Ask ==
    /\ cPaid
    /\ cAsk.pc = "idle"
    /\ CanAsk(cFile, cQuestion, cPaid)
    /\ \E readOk \in BOOLEAN :
          Asked(QueryHandler(FormData(cFile, cQuestion, cSessionId), readOk, "hang"))
    /\ UNCHANGED <<env, paidSessions, sessions, inflight, confirmed, paidAnswered,
                   cPage, cUrl, cPaid, cSessionId, storage, cFile, cQuestion, cVerify>>

ClientPdfParsed ==
    /\ cAsk.pc = "pdf"
    /\ \E parseOk \in BOOLEAN : Asked(PdfSettled(cAsk, parseOk))
    /\ UNCHANGED <<env, paidSessions, sessions, inflight, confirmed, paidAnswered,
                   cPage, cUrl, cPaid, cSessionId, storage, cFile, cQuestion, cVerify>>

ClientCompletionReturned ==
    /\ cAsk.pc = "completion"
    /\ \E ok \in BOOLEAN : Asked(CompletionSettled(cAsk, ok))
    /\ UNCHANGED <<env, paidSessions, sessions, inflight, confirmed, paidAnswered,
                   cPage, cUrl, cPaid, cSessionId, storage, cFile, cQuestion, cVerify>>

\* The rest of handleAsk: the answer or the error is shown, loading ends.
AskCallback ==
    /\ cAsk.pc = "done"
    /\ cAsk' = Idle
    /\ UNCHANGED <<serverVars, cPage, cUrl, cPaid, cSessionId, storage, cFile,
                   cQuestion, cVerify>>

\* The user removes an item of the site's localStorage.
ClearStorage ==
    /\ \E k \in {"paid", "sessionId"} :
          /\ storage[k] # NoId
          /\ storage' = [storage EXCEPT ![k] = NoId]
    /\ UNCHANGED <<serverVars, cPage, cUrl, cPaid, cSessionId, cFile, cQuestion,
                   cVerify, cAsk>>

Next ==
    \/ Query
    \/ PdfParsed
    \/ CompletionReturned
    \/ CreateCheckout
    \/ CheckoutCreated
    \/ CustomerPays
    \/ VerifyCheckout
    \/ CheckoutRetrieved
    \/ Restart

Spec == Init /\ [][Next]_vars

\* One browser and the server: the browser's calls, the checkout sessions it
\* can come back with, and restarts of the server.
ClientNext ==
    \/ Visit
    \/ ClientRetrieved
    \/ VerifyCallback
    \/ ChooseFile
    \/ TypeQuestion
    \/ Ask
    \/ ClientPdfParsed
    \/ ClientCompletionReturned
    \/ AskCallback
    \/ ClearStorage
    \/ CreateCheckout
    \/ CheckoutCreated
    \/ CustomerPays
    \/ Restart

ClientSpec == Init /\ [][ClientNext]_vars

-----------------------------------------------------------------------------
(* Properties *)

\* Every request the model knows: suspended ones and the last finished one.
Requests == BagToSet(inflight) \cup {last}
Queries == {r \in Requests : r.kind = "query"}
Handled == {"query", "create", "verify"}

\* The question is text with at least one character that is not whitespace.
NonBlank(q) == q.t = "string" /\ \E i \in DOMAIN q.s : q.s[i] \notin Whitespace

\* A query with a file and a non-blank question.
WellFormed(r) == r.body /\ r.file # NoFile /\ NonBlank(r.question)

\* The request carries an identifier that a verification of this process saw paid.
Confirmed(r) == r.sessionId.defined /\ r.sessionId.s \in confirmed

Performed(r, op) == \E i \in DOMAIN r.log : r.log[i] = op

IsPrefix(s, t) == Len(s) <= Len(t) /\ s = SubSeq(t, 1, Len(s))

\* C1: a query without a sessionId, or with one that no verification of this
\* process saw paid, makes no completion call and, once it has a file and a
\* non-blank question, is answered 402.
C1_UnpaidQueryRejected ==
    \A r \in Queries :
        ~Confirmed(r) =>
            /\ ~Performed(r, "complete")
            /\ (WellFormed(r) /\ r.pc = "done") => r.status = 402

\* C2: a query reads or parses the upload, or issues a completion call, only if
\* its sessionId was recorded by a verification that observed 'paid'.
C2_WorkOnlyForConfirmed ==
    \A r \in Queries :
        (Performed(r, "read") \/ Performed(r, "parse") \/ Performed(r, "complete"))
            => Confirmed(r)

\* C3: after any query, whatever its outcome, its temporary upload is gone.
C3_UploadRemoved ==
    (last.kind = "query" /\ last.pc = "done") => ~last.stored

\* C4: once a verification answered {paid: true} for X, a well-formed query
\* with sessionId X is never answered 402, and no query calls the provider.
C4_PaidSessionAdmitted ==
    /\ \A x \in paidAnswered : ~PaymentRequired(Id(x), paidSessions)
    /\ (last.kind = "query" /\ WellFormed(last) /\ last.sessionId.defined
            /\ last.sessionId.s \in paidAnswered) => last.status # 402
    /\ \A r \in Queries : ~Performed(r, "retrieve") /\ ~Performed(r, "create")

C4_Witness ==
    /\ last.kind = "query" /\ WellFormed(last) /\ last.status = 200
    /\ last.sessionId.defined /\ last.sessionId.s \in paidAnswered

\* C5: a query without a file, or without a non-blank textual question, is
\* answered 400 before the registry, the file or the completion provider is
\* touched, whether or not its sessionId is paid.
C5_ValidationFirst ==
    (last.kind = "query" /\ (last.file = NoFile \/ ~NonBlank(last.question)))
        => (last.status = 400 /\ last.log = << >>)

C7_RegistryIsConfirmedSet == paidSessions = confirmed

\* Two verifications of an id that is already recorded are in flight at once.
C7_Witness ==
    \E r \in Awaiting("retrieve") :
        /\ CopiesIn(r, inflight) >= 2
        /\ r.sessionId.s \in paidSessions
        /\ Cardinality(paidSessions) = 2

\* C8: every handled request ends with exactly one response, and no error
\* leaves its handler.
C8_OneResponse ==
    (last.kind \in Handled) => (last.sent = 1 /\ last.escape = "none")

\* C9 as stated: a verification without session_id is answered 400.
C9_MissingParamIs400 ==
    (last.kind = "verify" /\ ~last.sessionId.defined)
        => (last.status = 400 /\ ~Performed(last, "retrieve"))

\* C9 amended: a verification without session_id calls no provider and is
\* answered 400 when the provider is configured, 500 when it is not; 500 is
\* answered only when the provider is unconfigured or the call failed, and
\* 200 otherwise.
C9_VerifyStatus ==
    (last.kind = "verify") =>
        /\ ~last.sessionId.defined =>
              /\ ~Performed(last, "retrieve")
              /\ last.status = IF env.stripe THEN 400 ELSE 500
        /\ last.status \in {200, 400, 500}
        /\ last.status = 500 <=> (~env.stripe \/ last.observed = "error")
        /\ last.status = 400 <=> (env.stripe /\ ~last.sessionId.defined)
        /\ last.status = 200 => last.observed \in PaymentStatuses

C9_Witness ==
    last.kind = "verify" /\ ~last.sessionId.defined /\ last.status = 500

\* C10: a query performs lookup, read, (parse), unlink and completion call in
\* that order without repeating or skipping one; a rejection stops it where it
\* stands; the completion call follows extraction and removal of the upload;
\* without model credentials the query ends 500 with no completion call.
TextSteps == <<"lookup", "read", "unlink", "complete">>
PdfSteps == <<"lookup", "read", "parse", "unlink", "complete">>

Count(r, op) == Cardinality({i \in DOMAIN r.log : r.log[i] = op})

Operations == {"lookup", "read", "parse", "unlink", "complete", "create", "retrieve"}

\* C11: no request performs an outbound call or an extraction twice; a request
\* whose call failed has ended with 500 and is no longer in flight.
C11_NoRetry ==
    \A r \in Requests :
        /\ \A op \in Operations : Count(r, op) <= 1
        /\ r.kind = "verify" => r.log \in {<< >>, <<"retrieve">>}
        /\ r.kind = "create" => r.log \in {<< >>, <<"create">>}
        /\ (r.kind = "verify" /\ r.observed = "error")
              => (r.pc = "done" /\ r.status = 500)
        /\ (r.kind \in {"create", "verify"} /\ r.pc = "done" /\ r.log # << >>)
              => r.status \in {200, 500}
        /\ (r.kind = "query" /\ r.pc = "done" /\ Performed(r, "read"))
              => r.status \in {200, 500}
        /\ r.pc # "done" => r.log # << >>

\* A query whose completion call failed ended with 500 and nothing is in flight.
C11_Witness ==
    /\ last.kind = "query" /\ last.status = 500 /\ last.log = PdfSteps
    /\ inflight = EmptyBag

\* A step that ends the process: a restart, or a crash on an escaped exception.
LifetimeEnds == last'.kind = "boot" \/ last'.escape = "crash"

\* C12: within a process lifetime the registry only grows, and only by a
\* verification that observed 'paid' adding its id; queries and checkout
\* creations leave it unchanged, and a query with a paid id that follows an
\* answered query with the same id is not rejected with 402.
C12_RegistryOnlyGrows ==
    [][ LifetimeEnds \/
        /\ paidSessions \subseteq paidSessions'
        /\ (paidSessions' # paidSessions) =>
              /\ last'.kind = "verify" /\ last'.observed = "paid"
              /\ paidSessions' \ paidSessions = {last'.sessionId.s}
        /\ (last' # last /\ last'.kind \in {"query", "create"})
              => paidSessions' = paidSessions
        /\ (/\ last.kind = "query" /\ last.status = 200
            /\ last.sessionId.s \in paidSessions
            /\ last'.kind = "query" /\ WellFormed(last')
            /\ last'.sessionId = last.sessionId)
              => last'.status # 402
      ]_vars

\* An answered query with a paid id while another query with that id proceeds.
C12_Witness ==
    /\ last.kind = "query" /\ last.status = 200
    /\ last.sessionId.s \in paidSessions
    /\ Cardinality(paidSessions) = 2
    /\ \E r \in Awaiting("completion") : r.sessionId = last.sessionId

-----------------------------------------------------------------------------
(* Properties of the browser and the server together, under ClientSpec *)

\* A step that is a page load.
PageLoads == cPage' # cPage

\* A step that writes an item of localStorage.
WritesStorage == \E k \in DOMAIN storage : storage'[k] # storage[k] /\ storage'[k] # NoId

\* A step in which the answer of the verification call reaches its callbacks.
VerifyAnswered == cVerify.pc = "done" /\ cVerify'.pc = "delivered"

\* A step in which the page posts a query.
QuerySent == cAsk.pc = "idle" /\ cAsk'.pc # "idle"

\* C13: outside page loads the client enters paid mode, changes its session
\* id or writes localStorage only when the verification call made for the id
\* in the URL is answered {paid: true}, and it then holds and persists exactly
\* that id; an answer of paid:false or a failed call leaves paid, sessionId and
\* localStorage unchanged.  A page load without a session id in the URL sets
\* paid mode exactly when both persisted items are present, takes the
\* persisted id, leaves localStorage alone and calls nothing.  A query is
\* posted only in paid mode with a chosen file and a question that is not
\* blank after trimming, and it carries that file and the trimmed question.
C13_ClientPaymentState ==
    [][ /\ (~PageLoads /\ (cPaid' # cPaid \/ cSessionId' # cSessionId \/ WritesStorage)) =>
              /\ VerifyAnswered
              /\ cVerify.status = 200 /\ cVerify.paid
              /\ cVerify.sessionId = cUrl
              /\ cPaid'
              /\ cSessionId' = cUrl
              /\ storage' = [paid |-> Id("true"), sessionId |-> cUrl]
        /\ (VerifyAnswered /\ ~(cVerify.status = 200 /\ cVerify.paid)) =>
              UNCHANGED <<cPaid, cSessionId, storage>>
        /\ (PageLoads /\ ~Truthy(cUrl')) =>
              /\ cPaid' <=> (storage.paid # NoId /\ storage.sessionId # NoId)
              /\ cPaid' => cSessionId' = storage.sessionId
              /\ cVerify' = Idle
              /\ UNCHANGED <<storage, serverVars>>
        /\ QuerySent =>
              /\ cPaid /\ cFile # NoFile /\ Len(Trim(cQuestion)) # 0
              /\ cAsk'.kind = "query" /\ cAsk'.file = cFile
              /\ cAsk'.question = JsString(Trim(cQuestion))
      ]_vars

\* A page loaded without a session id that restored paid mode from
\* localStorage and whose query was answered.
C13_Witness ==
    /\ cUrl = NoId /\ cVerify = Idle
    /\ cPaid /\ cSessionId = storage.sessionId /\ storage.paid = Id("true")
    /\ cAsk.pc = "done" /\ cAsk.status = 200 /\ cAsk.sessionId = cSessionId

\* C14: whenever the client is in paid mode with session id s the registry
\* holds s, and no well-formed query of the page is answered 402.
C14_PaidClientRegistered ==
    /\ cPaid => (cSessionId.defined /\ cSessionId.s \in paidSessions)
    /\ (cAsk.pc = "done" /\ WellFormed(cAsk)) => cAsk.status # 402

=============================================================================
